---- MODULE Spec2Model ----
(***************************************************************************)
(* Model of src/image_offset.py (EsesImageOffset).                         *)
(*                                                                         *)
(* Strings are sequences of one-character strings.  Tensors and numpy      *)
(* arrays are records [shape, data] with the data in row-major order; a    *)
(* tensor value t stands for the real number t / TensorDen, so that the    *)
(* 8-bit levels k/255 are the even values 2k and the odd values lie        *)
(* between two levels.  PIL images are records [mode, w, h, data] with one *)
(* entry of data per pixel, row-major: an integer for mode "L", a tuple    *)
(* <<r, g, b, a>> for mode "RGBA" and <<r, g, b>> for mode "RGB".          *)
(***************************************************************************)
EXTENDS Integers, Sequences, FiniteSets, TLC

VARIABLES pc, offset_x, offset_y, wrap_around, fill_color, invert_mask_output,
          image, mask, is_mask_connected, img_pil, mask_pil,
          current_width, current_height, unified_fill_color_tuple,
          output, pass, first_image, first_mask

vars == <<pc, offset_x, offset_y, wrap_around, fill_color, invert_mask_output,
          image, mask, is_mask_connected, img_pil, mask_pil,
          current_width, current_height, unified_fill_color_tuple,
          output, pass, first_image, first_mask>>

\* Python's None, as a tensor and as a PIL image.
NoneTensor == [shape |-> <<>>, data |-> <<>>]

NonePIL == [mode |-> "None", w |-> 0, h |-> 0, data |-> <<>>]

IsNoneTensor(t) == Len(t.shape) = 0

IsNone(im) == im.mode = "None"

(***************************************************************************)
(* Python string and integer helpers used by _parse_color_string.          *)
(***************************************************************************)

\* The characters str.strip() and int() treat as whitespace (the input
\* alphabet of the model holds the blank only).
IsSpace(c) == c = " "

RECURSIVE lstrip(_)
lstrip(s) == IF s # <<>> /\ IsSpace(Head(s)) THEN lstrip(Tail(s)) ELSE s

RECURSIVE rstrip(_)
rstrip(s) ==
    IF s # <<>> /\ IsSpace(s[Len(s)]) THEN rstrip(SubSeq(s, 1, Len(s) - 1)) ELSE s

\* str.strip()
strip(s) == rstrip(lstrip(s))

LowerDigits == <<"0", "1", "2", "3", "4", "5", "6", "7", "8", "9",
                 "a", "b", "c", "d", "e", "f">>

UpperDigits == <<"A", "B", "C", "D", "E", "F">>

\* A value no base reaches: what DigitValue gives a character that is no digit.
NoDigit == Len(LowerDigits) + Len(UpperDigits)

\* The value of a digit character, NoDigit for a character that is none.
DigitValue(c) ==
    IF \E i \in 1..Len(LowerDigits) : LowerDigits[i] = c
    THEN (CHOOSE i \in 1..Len(LowerDigits) : LowerDigits[i] = c) - 1
    ELSE IF \E i \in 1..Len(UpperDigits) : UpperDigits[i] = c
         THEN (CHOOSE i \in 1..Len(UpperDigits) : UpperDigits[i] = c) + 9
         ELSE NoDigit

RECURSIVE DigitsValue(_, _, _)
DigitsValue(s, base, acc) ==
    IF s = <<>> THEN acc
    ELSE DigitsValue(Tail(s), base, acc * base + DigitValue(Head(s)))

\* Python's int(s, base) on a string: surrounding whitespace is dropped, one
\* sign is accepted, and what remains must be a non-empty run of digits of
\* the base.  ok = FALSE stands for ValueError.  (Underscores between digits
\* and the "0x" prefix are not in the model's alphabet.)
int(s, base) ==
    LET t == strip(s)
        signed == t # <<>> /\ Head(t) \in {"+", "-"}
        d == IF signed THEN Tail(t) ELSE t
        ok == d # <<>> /\ \A i \in 1..Len(d) : DigitValue(d[i]) < base
        v == IF ok THEN DigitsValue(d, base, 0) ELSE 0
    IN  [ok |-> ok, val |-> IF signed /\ Head(t) = "-" THEN 0 - v ELSE v]

RECURSIVE split(_, _)
\* str.split(sep) for a one-character separator.
split(s, sep) ==
    IF \E i \in 1..Len(s) : s[i] = sep
    THEN LET i == CHOOSE k \in 1..Len(s) :
                     s[k] = sep /\ \A j \in 1..(k - 1) : s[j] # sep
         IN  <<SubSeq(s, 1, i - 1)>> \o split(SubSeq(s, i + 1, Len(s)), sep)
    ELSE <<s>>

\* The 2-character slices color_string[i:i+2] for i in `starts` (0-based),
\* each converted with int(.., 16).
HexSlices(s, starts) ==
    [k \in 1..Len(starts) |-> int(SubSeq(s, starts[k] + 1, starts[k] + 2), 16)]

AllOk(rs) == \A k \in 1..Len(rs) : rs[k].ok

Values(rs) == [k \in 1..Len(rs) |-> rs[k].val]

\* Lines 67-68: the tuple of int(color_string[i:i+2], 16); ok = FALSE when a
\* slice raises ValueError.
ParseHex(s, starts) ==
    LET rs == HexSlices(s, starts)
    IN  [ok |-> AllOk(rs), val |-> Values(rs)]

\* Lines 71-73: parts = [int(p.strip()) for p in color_string.split(',')].
ParseDecimal(s) ==
    LET ps == split(s, ",")
        rs == [k \in 1..Len(ps) |-> int(strip(ps[k]), 10)]
    IN  [ok |-> AllOk(rs), val |-> Values(rs)]

_parse_color_string(color_string) ==
    LET s == strip(color_string)
        hex6 == ParseHex(s, <<0, 2, 4>>)
        hex8 == ParseHex(s, <<0, 2, 4, 6>>)
        dec == ParseDecimal(s)
    IN  IF s = <<>> THEN <<0, 0, 0, 0>>
        ELSE IF Len(s) = 6 /\ hex6.ok THEN hex6.val \o <<255>>
        ELSE IF Len(s) = 8 /\ hex8.ok THEN hex8.val
        ELSE IF dec.ok /\ Len(dec.val) = 3 THEN dec.val \o <<255>>
        ELSE IF dec.ok /\ Len(dec.val) = 4 THEN dec.val
        ELSE <<0, 0, 0, 0>>

(***************************************************************************)
(* numpy arrays and torch tensors.                                         *)
(***************************************************************************)

\* The denominator of tensor values: t stands for t / TensorDen.
TensorDen == 2 * 255

Clip(v, lo, hi) == IF v < lo THEN lo ELSE IF v > hi THEN hi ELSE v

Prod(shape) == IF Len(shape) = 0 THEN 1
               ELSE IF Len(shape) = 1 THEN shape[1]
               ELSE IF Len(shape) = 2 THEN shape[1] * shape[2]
               ELSE IF Len(shape) = 3 THEN shape[1] * shape[2] * shape[3]
               ELSE shape[1] * shape[2] * shape[3] * shape[4]

\* ndarray.squeeze(): every axis of length 1 is removed, the data stays.
squeeze(a) == [shape |-> SelectSeq(a.shape, LAMBDA n : n # 1), data |-> a.data]

\* np.clip(255. * a, 0, 255).astype(np.uint8): scale, clip, truncate.
ToUint8(a) ==
    [shape |-> a.shape,
     data |-> [i \in 1..Len(a.data) |->
                  Clip(255 * a.data[i], 0, 255 * TensorDen) \div TensorDen]]

\* torch.zeros(*shape)
zeros(shape) == [shape |-> shape, data |-> [i \in 1..Prod(shape) |-> 0]]

(***************************************************************************)
(* PIL.                                                                    *)
(***************************************************************************)

\* The outcome of a PIL call that raises.
Error == [mode |-> "Error", w |-> 0, h |-> 0, data |-> <<>>]

IsError(im) == im.mode = "Error"

Bands(mode) == IF mode = "L" THEN 1 ELSE IF mode = "RGB" THEN 3 ELSE 4

\* The pixel at column x, row y (0-based).
Px(im, x, y) == im.data[y * im.w + x + 1]

\* Image.fromarray(arr, mode=mode): the array's last two (mode "L": one or two)
\* axes give the size, and the buffer must hold size * bands bytes.  Error
\* stands for the exception raised otherwise.
fromarray(arr, mode) ==
    LET ndim == Len(arr.shape)
        ndmax == IF mode = "L" THEN 2 ELSE IF mode = "RGB" THEN 3 ELSE 4
        w == IF ndim = 1 THEN 1 ELSE arr.shape[2]
        h == arr.shape[1]
        b == Bands(mode)
    IN  IF ndim = 0 \/ ndim > ndmax THEN Error
        ELSE IF w * h * b # Len(arr.data) THEN Error
        ELSE [mode |-> mode, w |-> w, h |-> h,
              data |-> [i \in 1..(w * h) |->
                          IF b = 1 THEN arr.data[i]
                          ELSE [k \in 1..b |-> arr.data[(i - 1) * b + k]]]]

\* Image.convert('RGBA') of an RGB or RGBA image: alpha 255 is added.
convertRGBA(im) ==
    IF im.mode = "RGBA" THEN im
    ELSE [im EXCEPT !.mode = "RGBA",
                    !.data = [i \in 1..Len(im.data) |-> im.data[i] \o <<255>>]]

\* Image.convert("RGB") of an RGBA image: the alpha band is dropped.
convertRGB(im) ==
    [im EXCEPT !.mode = "RGB",
               !.data = [i \in 1..Len(im.data) |-> SubSeq(im.data[i], 1, 3)]]

\* CLIP8 of the C library: the ink of Image.new is clipped to a byte.
CLIP8(v) == Clip(v, 0, 255)

\* Image.new(mode, size, color)
new(mode, w, h, color) ==
    LET ink == IF mode = "L" THEN CLIP8(color)
               ELSE [k \in 1..Bands(mode) |-> CLIP8(color[k])]
    IN  [mode |-> mode, w |-> w, h |-> h, data |-> [i \in 1..(w * h) |-> ink]]

\* Image.split()[-1] of an RGBA image: its alpha band as an "L" image.
alphaBand(im) ==
    [mode |-> "L", w |-> im.w, h |-> im.h,
     data |-> [i \in 1..Len(im.data) |-> im.data[i][4]]]

\* Image.resize(size, Image.NEAREST): output column x reads input column
\* floor((x + 1/2) * w_in / w_out), and likewise for rows.  (The library adds
\* up the step in floating point; for sizes up to 5 the sums round to these
\* values.)
resize(im, w, h) ==
    IF im.w = w /\ im.h = h THEN im
    ELSE [mode |-> im.mode, w |-> w, h |-> h,
          data |-> [i \in 1..(w * h) |->
                      LET x == (i - 1) % w
                          y == (i - 1) \div w
                      IN  Px(im, ((2 * x + 1) * im.w) \div (2 * w),
                                 ((2 * y + 1) * im.h) \div (2 * h))]]

\* The remainder of C's integer division, which truncates toward zero.
CRem(a, n) == IF a >= 0 THEN a % n ELSE 0 - ((0 - a) % n)

\* A bug of ImagingOffset: the sign of the offsets is lost.
offsetUnsigned(im, xoffset, yoffset) ==
    LET xoff == im.w - ((IF xoffset < 0 THEN 0 - xoffset ELSE xoffset) % im.w)
        yoff == im.h - ((IF yoffset < 0 THEN 0 - yoffset ELSE yoffset) % im.h)
    IN  [im EXCEPT !.data = [i \in 1..(im.w * im.h) |->
                               LET x == (i - 1) % im.w
                                   y == (i - 1) \div im.w
                               IN  Px(im, (x + xoff) % im.w, (y + yoff) % im.h)]]

\* ImageChops.offset(im, xoffset, yoffset): ImagingOffset of the C library.
offset(im, xoffset, yoffset) ==
    LET xo == im.w - CRem(xoffset, im.w)
        yo == im.h - CRem(yoffset, im.h)
        xoff == IF xo < 0 THEN xo + im.w ELSE xo
        yoff == IF yo < 0 THEN yo + im.h ELSE yo
    IN  [im EXCEPT !.data = [i \in 1..(im.w * im.h) |->
                               LET x == (i - 1) % im.w
                                   y == (i - 1) \div im.w
                               IN  Px(im, (x + xoff) % im.w, (y + yoff) % im.h)]]

\* MULDIV255 of the C library: a * b / 255, rounded.
MULDIV255(a, b) == LET tmp == a * b + 128 IN ((tmp \div 256) + tmp) \div 256

\* BLEND8 of the C library, stored into a byte.
BLEND8(m, in1, in2) == (MULDIV255(in1, 255 - m) + MULDIV255(in2, m)) % 256

\* One pixel of paste_mask_L: every band is blended by the mask value.
BlendPixel(m, out, in) ==
    [k \in 1..Len(out) |-> BLEND8(m, out[k], in[k])]

\* Image.paste(src, (x, y), mask) onto dst: ImagingPaste of the C library.
\* The box is clipped to dst; without a mask the region is copied, with an
\* "L" mask it is blended.  maskIm = NonePIL stands for no mask.
paste(dst, src, x, y, maskIm) ==
    LET xs0 == src.w
        ys0 == src.h
        sx0 == IF x < 0 THEN 0 - x ELSE 0
        sy0 == IF y < 0 THEN 0 - y ELSE 0
        xs1 == IF x < 0 THEN xs0 + x ELSE xs0
        ys1 == IF y < 0 THEN ys0 + y ELSE ys0
        dx0 == IF x < 0 THEN 0 ELSE x
        dy0 == IF y < 0 THEN 0 ELSE y
        xsize == IF dx0 + xs1 > dst.w THEN dst.w - dx0 ELSE xs1
        ysize == IF dy0 + ys1 > dst.h THEN dst.h - dy0 ELSE ys1
    IN  IF xsize <= 0 \/ ysize <= 0 THEN dst
        ELSE [dst EXCEPT !.data = [i \in 1..(dst.w * dst.h) |->
                 LET ox == (i - 1) % dst.w
                     oy == (i - 1) \div dst.w
                     inside == /\ dx0 <= ox /\ ox < dx0 + xsize
                               /\ dy0 <= oy /\ oy < dy0 + ysize
                     sx == ox - dx0 + sx0
                     sy == oy - dy0 + sy0
                 IN  IF ~inside THEN dst.data[i]
                     ELSE IF IsNone(maskIm) THEN Px(src, sx, sy)
                     ELSE BlendPixel(Px(maskIm, sx, sy), dst.data[i], Px(src, sx, sy))]]

\* ImageOps.invert of an "L" image.
invert(im) == [im EXCEPT !.data = [i \in 1..Len(im.data) |-> 255 - im.data[i]]]

\* Image.putalpha(alpha): band 3 is replaced by the "L" image.
putalpha(im, alpha) ==
    [im EXCEPT !.data = [i \in 1..Len(im.data) |->
                           [im.data[i] EXCEPT ![4] = alpha.data[i]]]]

\* SHIFTFORDIV255 of the C library.
SHIFTFORDIV255(a) == ((a \div 256) + a) \div 256

\* One pixel of ImagingAlphaComposite: src over dst, 7 bits of precision.
CompositePixel(dst, src) ==
    IF src[4] = 0 THEN dst
    ELSE LET blend == dst[4] * (255 - src[4])
             outa255 == src[4] * 255 + blend
             coef1 == (src[4] * 255 * 255 * 128) \div outa255
             coef2 == 255 * 128 - coef1
             band(k) == SHIFTFORDIV255(src[k] * coef1 + dst[k] * coef2 + 128 * 128) \div 128
         IN  <<band(1), band(2), band(3), SHIFTFORDIV255(outa255 + 128)>>

\* Image.alpha_composite(im1, im2): im2 over im1.
alpha_composite(im1, im2) ==
    [im1 EXCEPT !.data = [i \in 1..Len(im1.data) |->
                            CompositePixel(im1.data[i], im2.data[i])]]

\* np.array(im).astype(np.float32) / 255.0, then torch.from_numpy(..)[None,]
ToTensor(im) ==
    LET b == Bands(im.mode)
    IN  [shape |-> IF b = 1 THEN <<1, im.h, im.w>> ELSE <<1, im.h, im.w, b>>,
         data |-> [j \in 1..(im.w * im.h * b) |->
                     (TensorDen \div 255) *
                     (IF b = 1 THEN im.data[j]
                      ELSE im.data[((j - 1) \div b) + 1][((j - 1) % b) + 1])]]

(***************************************************************************)
(* Formatting of the info string: a sequence of pieces, numbers written    *)
(* out digit by digit as str() does.                                       *)
(***************************************************************************)

RECURSIVE NatDigits(_)
NatDigits(n) ==
    IF n < 10 THEN <<LowerDigits[n + 1]>>
    ELSE NatDigits(n \div 10) \o <<LowerDigits[(n % 10) + 1]>>

\* str(n) for an integer n.
str(n) == IF n < 0 THEN <<"-">> \o NatDigits(0 - n) ELSE NatDigits(n)

\* The f-string of line 220.
output_info(ox, oy, w, h, wrap, inv) ==
    <<"Offset: (">> \o str(ox) \o <<", ">> \o str(oy) \o <<"), Size: ">> \o str(w)
        \o <<"x">> \o str(h) \o <<", Wrapped: ", wrap, ", Mask Output Inverted: ", inv>>

(***************************************************************************)
(* apply_image_transformations, one action per block of the function.      *)
(***************************************************************************)

NoOutput == [image |-> NoneTensor, mask |-> NoneTensor, offset_x |-> 0,
             offset_y |-> 0, info |-> <<>>]

\* A bug of lines 82-84: the offsets are not echoed.
DummyOutputNoEcho(ox, oy) ==
    [image |-> zeros(<<1, 64, 64, 3>>), mask |-> zeros(<<1, 64, 64>>),
     offset_x |-> 0, offset_y |-> 0, info |-> <<"No Image or Mask Input">>]

\* Lines 82-84: the tuple returned when neither input is connected.
DummyOutput(ox, oy) ==
    [image |-> zeros(<<1, 64, 64, 3>>), mask |-> zeros(<<1, 64, 64>>),
     offset_x |-> ox, offset_y |-> oy, info |-> <<"No Image or Mask Input">>]

\* Lines 80-84: neither input is connected.
NoInput ==
    /\ pc = "start"
    /\ IsNoneTensor(image) /\ IsNoneTensor(mask)
    /\ output' = DummyOutput(offset_x, offset_y)
    /\ pc' = "done"
    /\ UNCHANGED <<offset_x, offset_y, wrap_around, fill_color, invert_mask_output,
                   image, mask, is_mask_connected, img_pil, mask_pil, current_width,
                   current_height, unified_fill_color_tuple, pass, first_image, first_mask>>

\* Lines 91-98: the image tensor as an RGBA PIL image.
InitImgPil(img) ==
    IF IsNoneTensor(img) THEN NonePIL
    ELSE LET img_mode == IF img.shape[Len(img.shape)] = 4 THEN "RGBA" ELSE "RGB"
             im == fromarray(ToUint8(squeeze(img)), img_mode)
         IN  IF IsError(im) THEN Error ELSE convertRGBA(im)

\* Lines 101-112: the mask tensor as an "L" PIL image, or the all-255 mask of
\* the image's size when only an image is connected.
InitMaskPil(msk, im) ==
    IF ~IsNoneTensor(msk) THEN fromarray(ToUint8(squeeze(msk)), "L")
    ELSE IF ~IsNone(im) THEN new("L", im.w, im.h, 255)
    ELSE NonePIL

\* A bug of line 115: a resampling filter that averages neighbouring pixels.
ReconcileMaskSmooth(im, m) ==
    IF ~IsNone(im) /\ ~IsNone(m) /\ (im.w # m.w \/ im.h # m.h)
    THEN LET r == resize(m, im.w, im.h)
         IN  [r EXCEPT !.data = [i \in 1..Len(r.data) |->
                                   (r.data[i] + r.data[(i % Len(r.data)) + 1]) \div 2]]
    ELSE m

\* Lines 114-115: a mask of another size than the image is resized to it.
ReconcileMask(im, m) ==
    IF ~IsNone(im) /\ ~IsNone(m) /\ (im.w # m.w \/ im.h # m.h)
    THEN resize(m, im.w, im.h) ELSE m

\* Lines 86-115: initialise the PIL images and the dimensions.  An exception
\* of Image.fromarray ends the call.
InitImages ==
    /\ pc = "start"
    /\ ~(IsNoneTensor(image) /\ IsNoneTensor(mask))
    /\ LET im == InitImgPil(image)
           m == IF IsError(im) THEN Error ELSE InitMaskPil(mask, im)
       IN  /\ is_mask_connected' = ~IsNoneTensor(mask)
           /\ IF IsError(im) \/ IsError(m)
              THEN /\ pc' = "error"
                   /\ UNCHANGED <<img_pil, mask_pil, current_width, current_height>>
              ELSE /\ pc' = "offset"
                   /\ img_pil' = im
                   /\ mask_pil' = ReconcileMask(im, m)
                   /\ current_width' = IF ~IsNone(im) THEN im.w ELSE m.w
                   /\ current_height' = IF ~IsNone(im) THEN im.h ELSE m.h
    /\ UNCHANGED <<offset_x, offset_y, wrap_around, fill_color, invert_mask_output,
                   image, mask, unified_fill_color_tuple, output, pass, first_image, first_mask>>

\* A bug of line 128: the image is pasted without a paste mask.
OffsetImageNoMask(im, ox, oy, wrap, fill, w, h) ==
    IF wrap = "On" THEN offset(im, ox, oy)
    ELSE paste(new("RGBA", w, h, fill), im, ox, oy, NonePIL)

\* Lines 121-128: the image is shifted cyclically, or pasted at the offset
\* onto a canvas of the fill colour with its own alpha band as the paste mask.
OffsetImage(im, ox, oy, wrap, fill, w, h) ==
    IF wrap = "On" THEN offset(im, ox, oy)
    ELSE paste(new("RGBA", w, h, fill), im, ox, oy, alphaBand(im))

\* Line 132
mask_fill_value(connected) == IF connected THEN 255 ELSE 0

\* Lines 130-137: the mask is shifted cyclically, or pasted at the offset onto
\* a canvas of mask_fill_value.
OffsetMask(m, ox, oy, wrap, connected, w, h) ==
    IF wrap = "On" THEN offset(m, ox, oy)
    ELSE paste(new("L", w, h, mask_fill_value(connected)), m, ox, oy, NonePIL)

\* Lines 119-137
ApplyOffset ==
    /\ pc = "offset"
    /\ LET fill == _parse_color_string(fill_color)
       IN  /\ unified_fill_color_tuple' = fill
           /\ img_pil' = IF IsNone(img_pil) THEN img_pil
                         ELSE OffsetImage(img_pil, offset_x, offset_y, wrap_around,
                                          fill, current_width, current_height)
    /\ mask_pil' = IF IsNone(mask_pil) THEN mask_pil
                   ELSE OffsetMask(mask_pil, offset_x, offset_y, wrap_around,
                                   is_mask_connected, current_width, current_height)
    /\ pc' = "alpha"
    /\ UNCHANGED <<offset_x, offset_y, wrap_around, fill_color, invert_mask_output,
                   image, mask, is_mask_connected, current_width, current_height,
                   output, pass, first_image, first_mask>>

\* A bug of lines 155-156: the mask itself is used as the alpha band.
MaskToAlphaDirect(im, m) == putalpha(convertRGBA(im), m)

\* Lines 150-156: the inverse of the mask becomes the image's alpha band.
MaskToAlpha(im, m) == putalpha(convertRGBA(im), invert(m))

\* Lines 146-156
ApplyMaskToAlpha ==
    /\ pc = "alpha"
    /\ img_pil' = IF ~IsNone(img_pil) /\ is_mask_connected
                  THEN MaskToAlpha(img_pil, mask_pil) ELSE img_pil
    /\ pc' = "composite"
    /\ UNCHANGED <<offset_x, offset_y, wrap_around, fill_color, invert_mask_output,
                   image, mask, is_mask_connected, mask_pil, current_width,
                   current_height, unified_fill_color_tuple, output, pass, first_image, first_mask>>

\* Lines 170-185: the image over a background of the fill colour, flattened
\* to RGB.
CompositeOverFill(im, fill) ==
    LET fill_color_for_composite == IF Len(fill) = 3 THEN fill \o <<255>> ELSE fill
        background_img == new("RGBA", im.w, im.h, fill_color_for_composite)
    IN  convertRGB(alpha_composite(background_img, im))

\* Lines 164-185
Composite ==
    /\ pc = "composite"
    /\ img_pil' = IF IsNone(img_pil) THEN img_pil
                  ELSE CompositeOverFill(img_pil, unified_fill_color_tuple)
    /\ pc' = "invert"
    /\ UNCHANGED <<offset_x, offset_y, wrap_around, fill_color, invert_mask_output,
                   image, mask, is_mask_connected, mask_pil, current_width,
                   current_height, unified_fill_color_tuple, output, pass, first_image, first_mask>>

\* Lines 190-191
\* A bug of lines 190-191: the toggle is ignored.
InvertMaskOutputIgnored(m, inv) == m

InvertMaskOutput(m, inv) == IF ~IsNone(m) /\ inv = "Yes" THEN invert(m) ELSE m

InvertMask ==
    /\ pc = "invert"
    /\ mask_pil' = InvertMaskOutput(mask_pil, invert_mask_output)
    /\ pc' = "convert"
    /\ UNCHANGED <<offset_x, offset_y, wrap_around, fill_color, invert_mask_output,
                   image, mask, is_mask_connected, img_pil, current_width,
                   current_height, unified_fill_color_tuple, output, pass, first_image, first_mask>>

\* Lines 198-202
OutputImage(im, w, h) == IF IsNone(im) THEN zeros(<<1, h, w, 3>>) ELSE ToTensor(im)

\* A bug of lines 211-216: a connected mask is output as it is.
OutputMaskAsIs(m, connected, w, h) ==
    IF IsNone(m) THEN zeros(<<1, h, w>>) ELSE ToTensor(m)

\* Lines 204-218: a connected mask is output as 1.0 - mask, a generated one
\* as it is.
OutputMask(m, connected, w, h) ==
    IF IsNone(m) THEN zeros(<<1, h, w>>)
    ELSE LET t == ToTensor(m)
         IN  IF connected
             THEN [t EXCEPT !.data = [i \in 1..Len(t.data) |-> TensorDen - t.data[i]]]
             ELSE t

\* Lines 198-222: back to tensors, and the returned tuple.
ToTensors ==
    /\ pc = "convert"
    /\ output' = [image |-> OutputImage(img_pil, current_width, current_height),
                  mask |-> OutputMask(mask_pil, is_mask_connected, current_width,
                                      current_height),
                  offset_x |-> offset_x, offset_y |-> offset_y,
                  info |-> output_info(offset_x, offset_y, current_width,
                                       current_height, wrap_around, invert_mask_output)]
    /\ pc' = "done"
    /\ UNCHANGED <<offset_x, offset_y, wrap_around, fill_color, invert_mask_output,
                   image, mask, is_mask_connected, img_pil, mask_pil, current_width,
                   current_height, unified_fill_color_tuple, pass, first_image, first_mask>>

(***************************************************************************)
(* The caller: the inputs of a call, and the second call of a round trip.  *)
(***************************************************************************)

\* The largest width and height of an input tensor, and the largest
\* magnitude of the offsets that are enumerated in full.
MaxW == 3

MaxH == 3

MaxOff == 3

\* INPUT_TYPES: "min": -4096, "max": 4096 of offset_x and offset_y.
OffsetLimit == 4096

OffsetValues == ((0 - MaxOff)..MaxOff) \cup {0 - OffsetLimit, OffsetLimit}

\* Pixels of the input images, in tensor units.  OpaquePalette holds 8-bit
\* levels only, all opaque; MixedPalette also holds values between two levels
\* and pixels that are partly or fully transparent.
OpaquePalette == << <<510, 0, 200, 510>>, <<0, 510, 100, 510>>, <<20, 40, 60, 510>>,
                    <<400, 400, 400, 510>>, <<100, 0, 510, 510>> >>

MixedPalette == << <<510, 0, 200, 510>>, <<0, 510, 100, 256>>, <<21, 40, 61, 0>>,
                   <<400, 400, 401, 510>>, <<100, 0, 510, 101>> >>

MaskPalette == <<0, 510, 200, 301, 100>>

\* An image tensor of shape [1, h, w, c] whose pixels run through the palette.
ImageTensor(h, w, c, pal) ==
    [shape |-> <<1, h, w, c>>,
     data |-> [i \in 1..(h * w * c) |->
                 pal[(((i - 1) \div c) % Len(pal)) + 1][((i - 1) % c) + 1]]]

\* A mask tensor of shape [1, h, w].
MaskTensor(h, w) ==
    [shape |-> <<1, h, w>>,
     data |-> [i \in 1..(h * w) |-> MaskPalette[((i - 1) % Len(MaskPalette)) + 1]]]

FillDefault == <<"0", ",", "0", ",", "0">>

FillHexAlpha == <<"f", "f", "0", "0", "0", "0", "8", "0">>

FillBogus == <<"b", "o", "g", "u", "s">>

FillOutOfRange == <<"3", "0", "0", ",", "-", "5", ",", "7">>

FillColors == {FillDefault, FillHexAlpha, FillBogus, FillOutOfRange}

\* The inputs of the offset sweep: a 3-wide, 2-high image and mask under
\* every pair of offsets.
SweepImages == {NoneTensor, ImageTensor(2, 3, 3, OpaquePalette),
                ImageTensor(2, 3, 4, MixedPalette)}

SweepMasks == {NoneTensor, MaskTensor(2, 3)}

\* The inputs of the shape sweep: every size of image and of mask under a few
\* offsets.
ShapeImages ==
    {NoneTensor} \cup
    {ImageTensor(h, w, 3, OpaquePalette) : h \in 1..MaxH, w \in 1..MaxW} \cup
    {ImageTensor(h, w, 4, MixedPalette) : h \in 1..MaxH, w \in 1..MaxW}

ShapeMasks == {NoneTensor} \cup {MaskTensor(h, w) : h \in 1..MaxH, w \in 1..MaxW}

ShapeOffsets == {<<0, 0>>, <<1, -1>>}

\* The offsets of the calls without any input.
NoInputOffsets ==
    ShapeOffsets \cup {<<OffsetLimit, 0 - OffsetLimit>>, <<0 - MaxOff, MaxOff>>}

Input(i, m, x, y, f) ==
    [image |-> i, mask |-> m, offset_x |-> x, offset_y |-> y, fill_color |-> f]

Inputs ==
    {Input(im[1], im[2], x, y, f) :
        im \in (SweepImages \X SweepMasks) \ {<<NoneTensor, NoneTensor>>},
        x \in OffsetValues, y \in OffsetValues, f \in {FillDefault, FillHexAlpha}}
    \cup
    {Input(i, m, o[1], o[2], f) :
        i \in SweepImages, m \in SweepMasks, o \in ShapeOffsets,
        f \in {FillBogus, FillOutOfRange}}
    \cup
    {Input(i, m, o[1], o[2], FillDefault) :
        i \in ShapeImages, m \in ShapeMasks, o \in ShapeOffsets}
    \cup
    {Input(NoneTensor, NoneTensor, o[1], o[2], f) : o \in NoInputOffsets, f \in FillColors}

Init ==
    /\ pc = "start"
    /\ \E in \in Inputs :
         /\ image = in.image
         /\ mask = in.mask
         /\ offset_x = in.offset_x
         /\ offset_y = in.offset_y
         /\ fill_color = in.fill_color
    /\ wrap_around \in {"Off", "On"}
    /\ invert_mask_output \in {"No", "Yes"}
    /\ is_mask_connected = FALSE
    /\ img_pil = NonePIL
    /\ mask_pil = NonePIL
    /\ current_width = 0
    /\ current_height = 0
    /\ unified_fill_color_tuple = <<>>
    /\ output = NoOutput
    /\ pass = 1
    /\ first_image = NoneTensor
    /\ first_mask = NoneTensor

\* The caller of the round trip: the image returned by a wrapped call is
\* passed to a second call with the offsets negated and wrap_around still On.
Reread ==
    /\ pc = "done"
    /\ pass = 1
    /\ wrap_around = "On"
    /\ ~IsNoneTensor(image)
    /\ first_image' = image
    /\ first_mask' = mask
    /\ image' = output.image
    /\ mask' = NoneTensor
    /\ offset_x' = 0 - offset_x
    /\ offset_y' = 0 - offset_y
    /\ pass' = 2
    /\ pc' = "start"
    /\ is_mask_connected' = FALSE
    /\ img_pil' = NonePIL
    /\ mask_pil' = NonePIL
    /\ current_width' = 0
    /\ current_height' = 0
    /\ unified_fill_color_tuple' = <<>>
    /\ output' = NoOutput
    /\ UNCHANGED <<wrap_around, fill_color, invert_mask_output>>

Next ==
    \/ NoInput
    \/ InitImages
    \/ ApplyOffset
    \/ ApplyMaskToAlpha
    \/ Composite
    \/ InvertMask
    \/ ToTensors
    \/ Reread

Spec == Init /\ [][Next]_vars

\* What a call that raises returns: nothing.
Raised == [image |-> NoneTensor, mask |-> NoneTensor, offset_x |-> 0,
           offset_y |-> 0, info |-> <<"Raised">>]

\* Lines 78-222: the whole call as a function of its arguments, the blocks
\* in the order of the code.
apply_image_transformations(ox, oy, wrap, fill_str, inv, img, msk) ==
    IF IsNoneTensor(img) /\ IsNoneTensor(msk) THEN DummyOutput(ox, oy)
    ELSE LET im0 == InitImgPil(img)
             mraw == IF IsError(im0) THEN Error ELSE InitMaskPil(msk, im0)
         IN  IF IsError(im0) \/ IsError(mraw) THEN Raised
             ELSE LET connected == ~IsNoneTensor(msk)
                      w == IF ~IsNone(im0) THEN im0.w ELSE mraw.w
                      h == IF ~IsNone(im0) THEN im0.h ELSE mraw.h
                      m0 == ReconcileMask(im0, mraw)
                      fill == _parse_color_string(fill_str)
                      im1 == IF IsNone(im0) THEN im0
                             ELSE OffsetImage(im0, ox, oy, wrap, fill, w, h)
                      m1 == IF IsNone(m0) THEN m0
                            ELSE OffsetMask(m0, ox, oy, wrap, connected, w, h)
                      im2 == IF ~IsNone(im1) /\ connected THEN MaskToAlpha(im1, m1)
                             ELSE im1
                      im3 == IF IsNone(im2) THEN im2 ELSE CompositeOverFill(im2, fill)
                      m2 == InvertMaskOutput(m1, inv)
                  IN  [image |-> OutputImage(im3, w, h),
                       mask |-> OutputMask(m2, connected, w, h),
                       offset_x |-> ox, offset_y |-> oy,
                       info |-> output_info(ox, oy, w, h, wrap, inv)]

\* The actions, taken one after the other, return what the function returns.
ActionsAgree ==
    pc = "done" =>
        output = apply_image_transformations(offset_x, offset_y, wrap_around,
                     fill_color, invert_mask_output, image, mask)

(***************************************************************************)
(* _parse_color_string on its own, over many strings.                      *)
(***************************************************************************)

\* The longest string of which every spelling is tried, and the most
\* two-character groups and comma-separated parts a string is built of.
MaxStrLen == 3

MaxChunks == 5

MaxParts == 5

Alphabet == {"0", "1", "f", "g", "+", "-", ",", " "}

HexChunks == {<<"f", "f">>, <<"0", "a">>, <<"+", "1">>, <<"-", "f">>,
              <<" ", "7">>, <<"g", "0">>}

DecParts == {<<"1", "0">>, <<"3", "0", "0">>, <<"-", "5">>, <<" ", "7">>, <<"x">>, <<>>}

RECURSIVE Join(_, _)
\* The members of the sequence ss, with sep between them.
Join(ss, sep) ==
    IF Len(ss) = 0 THEN <<>>
    ELSE IF Len(ss) = 1 THEN ss[1]
    ELSE ss[1] \o sep \o Join(Tail(ss), sep)

ColorStrings ==
    UNION {[1..n -> Alphabet] : n \in 0..MaxStrLen}
    \cup {Join(cs, <<>>) : cs \in UNION {[1..n -> HexChunks] : n \in 1..MaxChunks}}
    \cup {Join(ps, <<",">>) : ps \in UNION {[1..n -> DecParts] : n \in 1..MaxParts}}
    \cup FillColors

InitColor ==
    /\ pc = "parse"
    /\ fill_color \in ColorStrings
    /\ unified_fill_color_tuple = <<>>
    /\ offset_x = 0
    /\ offset_y = 0
    /\ wrap_around = "Off"
    /\ invert_mask_output = "No"
    /\ image = NoneTensor
    /\ mask = NoneTensor
    /\ is_mask_connected = FALSE
    /\ img_pil = NonePIL
    /\ mask_pil = NonePIL
    /\ current_width = 0
    /\ current_height = 0
    /\ output = NoOutput
    /\ pass = 1
    /\ first_image = NoneTensor
    /\ first_mask = NoneTensor

\* Line 119, alone: unified_fill_color_tuple = self._parse_color_string(fill_color)
ParseColor ==
    /\ pc = "parse"
    /\ unified_fill_color_tuple' = _parse_color_string(fill_color)
    /\ pc' = "parsed"
    /\ UNCHANGED <<offset_x, offset_y, wrap_around, fill_color, invert_mask_output,
                   image, mask, is_mask_connected, img_pil, mask_pil, current_width,
                   current_height, output, pass, first_image, first_mask>>

SpecColor == InitColor /\ [][ParseColor]_vars

(***************************************************************************)
(* The claims.                                                             *)
(***************************************************************************)

IsHexDigits(s) == \A i \in 1..Len(s) : DigitValue(s[i]) < 16

HexPair(s, i) == 16 * DigitValue(s[i]) + DigitValue(s[i + 1])

\* The colour a string stands for when it is read by its format alone.
ColorByFormat(color_string) ==
    LET s == strip(color_string)
        dec == ParseDecimal(s)
    IN  IF Len(s) = 6 /\ IsHexDigits(s)
        THEN <<HexPair(s, 1), HexPair(s, 3), HexPair(s, 5), 255>>
        ELSE IF Len(s) = 8 /\ IsHexDigits(s)
        THEN <<HexPair(s, 1), HexPair(s, 3), HexPair(s, 5), HexPair(s, 7)>>
        ELSE IF dec.ok /\ Len(dec.val) = 3 THEN dec.val \o <<255>>
        ELSE IF dec.ok /\ Len(dec.val) = 4 THEN dec.val
        ELSE <<0, 0, 0, 0>>

\* C4: _parse_color_string maps every string by its format: 6 hex digits to
\* (R,G,B,255), 8 hex digits to (R,G,B,A), 3 decimal integers to (R,G,B,255),
\* 4 decimal integers to (R,G,B,A), and every other string, a 6- or
\* 8-character string with a sign or a blank inside included, to (0,0,0,0).
C4_ParseByFormat ==
    pc = "parsed" => unified_fill_color_tuple = ColorByFormat(fill_color)

\* C5: the colour _parse_color_string returns is a tuple of exactly 4
\* integers, each in 0..255.
C5_ColorIsBytes ==
    pc = "parsed" =>
        /\ Len(unified_fill_color_tuple) = 4
        /\ \A k \in 1..4 : unified_fill_color_tuple[k] \in 0..255

AllZero(t) == \A i \in 1..Len(t.data) : t.data[i] = 0

\* C6: a call with neither image nor mask returns, whatever its other
\* arguments, the all-zero 1x64x64x3 image, the all-zero 1x64x64 mask, its
\* offsets and "No Image or Mask Input"; it never fails.
C6_NoInputDummy ==
    (IsNoneTensor(image) /\ IsNoneTensor(mask)) =>
        \/ pc = "start"
        \/ /\ pc = "done"
           /\ output.image.shape = <<1, 64, 64, 3>>
           /\ Len(output.image.data) = 64 * 64 * 3
           /\ AllZero(output.image)
           /\ output.mask.shape = <<1, 64, 64>>
           /\ Len(output.mask.data) = 64 * 64
           /\ AllZero(output.mask)
           /\ output.offset_x = offset_x
           /\ output.offset_y = offset_y
           /\ output.info = <<"No Image or Mask Input">>

C6_Witness ==
    /\ pc = "done"
    /\ IsNoneTensor(image) /\ IsNoneTensor(mask)
    /\ invert_mask_output = "Yes"
    /\ fill_color = FillBogus
    /\ wrap_around = "On"
    /\ offset_x = OffsetLimit /\ offset_y = 0 - OffsetLimit
    /\ output.offset_x = OffsetLimit /\ output.offset_y = 0 - OffsetLimit

Other(inv) == IF inv = "Yes" THEN "No" ELSE "Yes"

\* The call that differs from the one made in invert_mask_output only.
OtherRun ==
    apply_image_transformations(offset_x, offset_y, wrap_around, fill_color,
                                Other(invert_mask_output), image, mask)

\* C7: with an image or a mask connected, every pixel of the output mask of a
\* call is 1 - v, where v is that pixel of the output mask of the call that
\* differs in invert_mask_output only.
C7_InvertFlipsMask ==
    (pc = "done" /\ ~(IsNoneTensor(image) /\ IsNoneTensor(mask))) =>
        /\ output.mask.shape = OtherRun.mask.shape
        /\ Len(output.mask.data) = Len(OtherRun.mask.data)
        /\ \A i \in 1..Len(output.mask.data) :
              output.mask.data[i] = TensorDen - OtherRun.mask.data[i]

C7_Witness ==
    /\ pc = "done"
    /\ pass = 1
    /\ ~IsNoneTensor(image) /\ ~IsNoneTensor(mask)
    /\ wrap_around = "Off"
    /\ invert_mask_output = "Yes"
    /\ offset_x = 1
    /\ \E i \in 1..Len(output.mask.data) : output.mask.data[i] \notin {0, TensorDen}

\* C10: with an image and a mask connected, the alpha band that is composited
\* is 255 - v of the offset mask as it is before the output inversion; so the
\* call that differs in invert_mask_output only returns the same image, the
\* same offsets and the same size, and another mask and inverted flag.
C10_AlphaBeforeInvert ==
    /\ (pc = "composite" /\ ~IsNone(img_pil) /\ is_mask_connected) =>
          \A i \in 1..Len(img_pil.data) : img_pil.data[i][4] = 255 - mask_pil.data[i]
    /\ (pc = "done" /\ pass = 1 /\ ~IsNoneTensor(image) /\ ~IsNoneTensor(mask)) =>
          /\ output.image = OtherRun.image
          /\ output.offset_x = OtherRun.offset_x
          /\ output.offset_y = OtherRun.offset_y
          /\ SubSeq(output.info, 1, Len(output.info) - 1)
                = SubSeq(OtherRun.info, 1, Len(OtherRun.info) - 1)
          /\ output.info[Len(output.info)] # OtherRun.info[Len(OtherRun.info)]
          /\ output.mask # OtherRun.mask

C10_Witness ==
    /\ pc = "done"
    /\ pass = 1
    /\ ~IsNoneTensor(image) /\ ~IsNoneTensor(mask)
    /\ invert_mask_output = "Yes"
    /\ wrap_around = "On"
    /\ offset_x = 2
    /\ \E i \in 1..Len(output.image.data) : output.image.data[i] # 0

\* The 8-bit level a tensor value is stored as, and the tensor value of a level.
Level(t) == Clip(255 * t, 0, 255 * TensorDen) \div TensorDen

Value(k) == (TensorDen \div 255) * k

HasImage == ~IsNoneTensor(image)

HasMask == ~IsNoneTensor(mask)

\* The image and the mask as the offset phase receives them.
SourceImage == InitImgPil(image)

SourceMask == ReconcileMask(SourceImage, InitMaskPil(mask, SourceImage))

InBounds(im, x, y) == 0 <= x /\ x < im.w /\ 0 <= y /\ y < im.h

Positions(im) == (0..(im.w - 1)) \X (0..(im.h - 1))

\* C9: in clip mode the canvas keeps its size; every position whose source
\* position lies outside the original holds the fill value, the parsed fill
\* colour in the image and 255 (connected mask) or 0 (generated mask) in the
\* mask; every other position holds what its source pixel gives, so a pixel
\* moved off the canvas is nowhere.
C9_ClipFill ==
    (pc = "alpha" /\ pass = 1 /\ wrap_around = "Off") =>
        /\ HasImage =>
              /\ img_pil.w = SourceImage.w /\ img_pil.h = SourceImage.h
              /\ \A p \in Positions(img_pil) :
                    LET sx == p[1] - offset_x
                        sy == p[2] - offset_y
                    IN  IF InBounds(SourceImage, sx, sy)
                        THEN Px(SourceImage, sx, sy)[4] = 255 =>
                                Px(img_pil, p[1], p[2]) = Px(SourceImage, sx, sy)
                        ELSE Px(img_pil, p[1], p[2]) = unified_fill_color_tuple
        /\ /\ mask_pil.w = SourceMask.w /\ mask_pil.h = SourceMask.h
           /\ \A p \in Positions(mask_pil) :
                 LET sx == p[1] - offset_x
                     sy == p[2] - offset_y
                 IN  Px(mask_pil, p[1], p[2]) =
                        IF InBounds(SourceMask, sx, sy) THEN Px(SourceMask, sx, sy)
                        ELSE IF HasMask THEN 255 ELSE 0

\* C2 as stated: in clip mode with offset (0,0) the image the offset phase
\* produces is the input image, in every pixel and band.
C2_OffsetPhaseIdentity ==
    (pc = "alpha" /\ pass = 1 /\ wrap_around = "Off" /\ offset_x = 0 /\ offset_y = 0
        /\ HasImage) => img_pil = SourceImage

Distance(a, b) == IF a < b THEN b - a ELSE a - b

\* C2, amended: in clip mode with offset (0,0) every pixel of the image the
\* offset phase produces is the blend of the fill colour and the input pixel
\* weighted by the pixel's own alpha, in all four bands: the input pixel
\* where alpha is 255 (every pixel of a 3-channel image), the fill colour
\* where alpha is 0, and within one level of
\* (fill * (255 - alpha) + input * alpha) / 255 otherwise.
C2_OffsetPhaseBlend ==
    (pc = "alpha" /\ pass = 1 /\ wrap_around = "Off" /\ offset_x = 0 /\ offset_y = 0
        /\ HasImage) =>
        /\ img_pil.w = SourceImage.w /\ img_pil.h = SourceImage.h
        /\ img_pil.mode = "RGBA"
        /\ \A i \in 1..Len(SourceImage.data) :
              LET in == SourceImage.data[i]
                  out == img_pil.data[i]
                  a == in[4]
                  f == [k \in 1..4 |-> Clip(unified_fill_color_tuple[k], 0, 255)]
              IN  /\ a = 255 => out = in
                  /\ a = 0 => out = f
                  /\ \A k \in 1..4 :
                        Distance(255 * out[k], f[k] * (255 - a) + in[k] * a) <= 255

C2_Witness ==
    /\ pc = "alpha" /\ pass = 1 /\ wrap_around = "Off" /\ offset_x = 0 /\ offset_y = 0
    /\ HasImage
    /\ fill_color = FillHexAlpha
    /\ \E i \in 1..Len(img_pil.data) :
          SourceImage.data[i][4] \notin {0, 255} /\ img_pil.data[i] # SourceImage.data[i]
    /\ \E i \in 1..Len(img_pil.data) :
          SourceImage.data[i][4] = 0 /\ img_pil.data[i] = <<255, 0, 0, 128>>
    /\ \E i \in 1..Len(img_pil.data) :
          SourceImage.data[i][4] = 255 /\ img_pil.data[i] = SourceImage.data[i]

Ones(shape) == [shape |-> shape, data |-> [i \in 1..Prod(shape) |-> TensorDen]]

OnLevels(t) == \A i \in 1..Len(t.data) : t.data[i] = Value(Level(t.data[i]))

\* The images the amended C1 is about: 3 channels, two rows and two columns
\* or more, every value an 8-bit level.
Plain(t) ==
    /\ ~IsNoneTensor(t)
    /\ t.shape[4] = 3
    /\ t.shape[2] >= 2 /\ t.shape[3] >= 2
    /\ OnLevels(t)

====
